---- MODULE Spec2Model ----
(***************************************************************************)
(* The PDF-to-HTML conversion endpoint (backend/app/main.py) with the      *)
(* extraction helpers of backend/app/pdf_parser.py and the two synthesis   *)
(* stages of backend/app/html_generator.py, as one request handled from    *)
(* validation to the response that leaves the application.                 *)
(*                                                                         *)
(* Strings the code only measures or copies are records [tag, len]; file   *)
(* and entry names built with f-strings are records of their parts.        *)
(***************************************************************************)
EXTENDS Integers, Sequences, FiniteSets, TLC

VARIABLES
    pc,               \* position of the request inside convert_pdf_to_html
    upload,           \* the UploadFile: content_type and size of its body
    body_read,        \* file.read() has been awaited
    temp_file_path,   \* local temp_file_path ("" until line 101)
    disk,             \* temp files that exist on disk
    doc,              \* local doc (None until line 103) and the handle's state
    total_pages,      \* local total_pages
    all_text_data,    \* result of extract_text_with_positions
    all_image_data,   \* result of extract_images
    all_table_data,   \* result of extract_tables_with_pdfplumber
    detected_tables,  \* what page.extract_tables() found, page by page
    listed_images,    \* what get_page_images() listed, page by page
    page_num,         \* loop variable of the page loop
    bundle,           \* the three per-page lists joined at lines 115-117
    last_md,          \* latest run of generate_markdown_from_data
    last_html,        \* latest run of generate_html_from_markdown
    zip_entries,      \* entries written to zip_file, in order
    exc,              \* exception in flight
    raised,           \* every exception raised while handling the request
    response,         \* what the client receives
    log               \* external operations invoked, in order

vars == << pc, upload, body_read, temp_file_path, disk, doc, total_pages,
           all_text_data, all_image_data, all_table_data, detected_tables,
           listed_images, page_num, bundle, last_md, last_html, zip_entries, exc, raised, response, log >>

----------------------------------------------------------------------------
(* Bounds of the model *)

MaxPages == 2
MaxImages == 2

(* Program constants *)

MAX_FILE_SIZE == 50 * 1024 * 1024
MAX_CHARS == 15000
SubprocessTimeout == 30

PdfContentType == "application/pdf"
InternalErrorMessage == "An internal server error occurred."
FallbackHeading == "# Page Content Too Large for Detailed Analysis"

----------------------------------------------------------------------------
(* Exceptions and responses *)

NoExc == [type |-> "none", status |-> 0, text |-> ""]

HTTPException(status_code, detail) ==
    [type |-> "HTTPException", status |-> status_code, text |-> detail]

\* An exception of a library or of the operating system; text is str(e).
LibraryError(text) == [type |-> "Exception", status |-> 0, text |-> text]

\* exceptions.py: the domain errors and their default messages.
InvalidPDFError ==
    [type |-> "InvalidPDFError", status |-> 0,
     text |-> "The provided file is not a valid PDF or is corrupted."]

PasswordProtectedPDFError ==
    [type |-> "PasswordProtectedPDFError", status |-> 0,
     text |-> "The PDF is password-protected. Please provide a valid password."]

IsPDFProcessingError(e) ==
    e.type \in {"PDFProcessingError", "InvalidPDFError", "PasswordProtectedPDFError"}

NoResponse == [status |-> 0, key |-> "", type |-> "", text |-> "", entries |-> << >>]

----------------------------------------------------------------------------
(* Strings *)

\* A string the code only measures or copies: what it says, and its length.
Str(tag, len) == [tag |-> tag, len |-> len]

\* len(str(n)) for an integer n.
RECURSIVE IntStrLen(_)
IntStrLen(n) ==
    IF n < 0 THEN 1 + IntStrLen(-n)
    ELSE IF n < 10 THEN 1
    ELSE 1 + IntStrLen(n \div 10)

\* Sum of the lengths of a list of strings.
RECURSIVE SumLen(_)
SumLen(strs) ==
    IF strs = << >> THEN 0 ELSE Head(strs).len + SumLen(Tail(strs))

\* len(sep.join(strs)) for a separator of length sepLen.
JoinLen(strs, sepLen) ==
    IF strs = << >> THEN 0 ELSE SumLen(strs) + sepLen * (Len(strs) - 1)

\* Python's round() on a coordinate kept in tenths: to nearest, ties to even.
Round(c) ==
    LET q == c \div 10
        r == c % 10
    IN  IF r < 5 THEN q
        ELSE IF r > 5 THEN q + 1
        ELSE IF q % 2 = 0 THEN q ELSE q + 1

\* len(str([round(c) for c in bbox])): "[a, b, c, d]".
BBoxStrLen(bbox) ==
    2 + 3 * 2 + IntStrLen(Round(bbox[1])) + IntStrLen(Round(bbox[2]))
              + IntStrLen(Round(bbox[3])) + IntStrLen(Round(bbox[4]))

ExtLen(ext) == IF ext = "jpeg" THEN 4 ELSE 3

\* The image names: f"image_{page_num}_{xref}.{image_ext}" of the primary
\* path, and the file names pdfimages writes for the prefix "img"
\* ("img-000.png", ...) of the fallback path.
PrimaryName(p, xref, ext) == [stem |-> "image_", a |-> p, b |-> xref, ext |-> ext]
FallbackFileName(i, ext) == [stem |-> "img-", a |-> i, b |-> 0, ext |-> ext]
PageFileName(n) == [stem |-> "page-", a |-> n, b |-> 0, ext |-> "html"]
StyleSheetName == [stem |-> "style", a |-> 0, b |-> 0, ext |-> "css"]

NameLen(name) ==
    IF name.stem = "image_"
    THEN 6 + IntStrLen(name.a) + 1 + IntStrLen(name.b) + 1 + ExtLen(name.ext)
    ELSE 4 + 3 + 1 + ExtLen(name.ext)

\* A zip entry path: f"page-{n}.html", "style.css", f"images/{name}".
Entry(dir, name) == [dir |-> dir, name |-> name]

----------------------------------------------------------------------------
(* html_generator.format_data_for_llm *)

NoneCell == [tag |-> "", len |-> -1]

\* str(cell) as map(str, row) applies it: None becomes "None".
StrOfCell(c) == IF c = NoneCell THEN Str("None", 4) ELSE c

TextLine(block) ==
    Str(block.text.tag,
        9 + block.text.len + 28 + BBoxStrLen(block.bbox) + 9 + IntStrLen(block.size))

ImageLine(image) == Str("image", 19 + NameLen(image.name) + 1)

RowStr(row) ==
    Str("row", JoinLen([j \in 1..Len(row) |-> StrOfCell(row[j])], 3))

TableStr(table) ==
    Str("table", JoinLen([r \in 1..Len(table) |-> RowStr(table[r])], 1))

\* The two strings appended for table i (0-based): the label and table_str.
RECURSIVE TableLines(_, _)
TableLines(tables, i) ==
    IF i >= Len(tables) THEN << >>
    ELSE << Str("label", 11 + IntStrLen(i + 1) + 4), TableStr(tables[i + 1]) >>
         \o TableLines(tables, i + 1)

\* formatted_strings, the list that is joined with "\n".
FormattedStrings(page_text_blocks, page_image_data, page_tables) ==
    << Str("**Text Elements:**", 18) >>
    \o [i \in 1..Len(page_text_blocks) |-> TextLine(page_text_blocks[i])]
    \o (IF page_image_data # << >>
        THEN << Str("image header", 20) >>
             \o [i \in 1..Len(page_image_data) |-> ImageLine(page_image_data[i])]
        ELSE << >>)
    \o (IF page_tables # << >>
        THEN << Str("table header", 65) >> \o TableLines(page_tables, 0)
        ELSE << >>)

format_data_for_llm(page_text_blocks, page_image_data, page_tables) ==
    LET formatted_strings ==
            FormattedStrings(page_text_blocks, page_image_data, page_tables)
    IN  [parts |-> formatted_strings, len |-> JoinLen(formatted_strings, 1)]

----------------------------------------------------------------------------
(* html_generator.generate_markdown_from_data *)

\* What the generative model returns: text the code passes on unread.
ModelOutput(stage) == Str(stage, 0)

\* The size gate taken with >= in place of >.
generate_markdown_gate_at_limit(page_text_blocks, page_image_data, page_tables, llm) ==
    LET formatted_data ==
            format_data_for_llm(page_text_blocks, page_image_data, page_tables)
    IN  IF formatted_data.len >= MAX_CHARS
        THEN [formatted_len |-> formatted_data.len, model_calls |-> 0,
              failed |-> FALSE,
              markdown |-> [kind |-> "fallback",
                            parts |-> << Str(FallbackHeading, 46),
                                         Str("raw text dump notice", 125),
                                         Str("rule", 5) >>
                                      \o [i \in 1..Len(page_text_blocks) |->
                                             page_text_blocks[i].text]]]
        ELSE [formatted_len |-> formatted_data.len, model_calls |-> 1,
              failed |-> (llm = "error"),
              markdown |-> [kind |-> "llm",
                            parts |-> IF llm = "error" THEN << >>
                                      ELSE << ModelOutput("stage 1 output") >>]]

\* llm is how the model call ends if it is made: "ok" or "error".
\* The raw dump cut short by its last span.
generate_markdown_dump_cut(page_text_blocks, page_image_data, page_tables, llm) ==
    LET formatted_data ==
            format_data_for_llm(page_text_blocks, page_image_data, page_tables)
        fallback_md ==
            << Str(FallbackHeading, 46), Str("raw text dump notice", 125),
               Str("rule", 5) >>
            \o [i \in 1..(Len(page_text_blocks) - 1) |-> page_text_blocks[i].text]
    IN  IF formatted_data.len > MAX_CHARS
        THEN [formatted_len |-> formatted_data.len, model_calls |-> 0,
              failed |-> FALSE,
              markdown |-> [kind |-> "fallback", parts |-> fallback_md]]
        ELSE [formatted_len |-> formatted_data.len, model_calls |-> 1,
              failed |-> (llm = "error"),
              markdown |-> [kind |-> "llm",
                            parts |-> IF llm = "error" THEN << >>
                                      ELSE << ModelOutput("stage 1 output") >>]]

generate_markdown_from_data(page_text_blocks, page_image_data, page_tables, llm) ==
    LET formatted_data ==
            format_data_for_llm(page_text_blocks, page_image_data, page_tables)
        fallback_md ==
            << Str(FallbackHeading, 46), Str("raw text dump notice", 125),
               Str("rule", 5) >>
            \o [i \in 1..Len(page_text_blocks) |-> page_text_blocks[i].text]
    IN  IF formatted_data.len > MAX_CHARS
        THEN [formatted_len |-> formatted_data.len, model_calls |-> 0,
              failed |-> FALSE,
              markdown |-> [kind |-> "fallback", parts |-> fallback_md]]
        ELSE [formatted_len |-> formatted_data.len, model_calls |-> 1,
              failed |-> (llm = "error"),
              markdown |-> [kind |-> "llm",
                            parts |-> IF llm = "error" THEN << >>
                                      ELSE << ModelOutput("stage 1 output") >>]]

----------------------------------------------------------------------------
(* html_generator.generate_html_from_markdown *)

NavLink(label, target) == [label |-> label, href |-> PageFileName(target)]

\* The Next link offered on the last page too.
nav_links_next_on_last(current_page, total) ==
    (IF current_page > 1
     THEN << NavLink("Previous", current_page - 1) >> ELSE << >>)
    \o (IF current_page <= total
        THEN << NavLink("Next", current_page + 1) >> ELSE << >>)

\* nav_links of lines 227-231.
nav_links(current_page, total) ==
    (IF current_page > 1
     THEN << NavLink("Previous", current_page - 1) >> ELSE << >>)
    \o (IF current_page < total
        THEN << NavLink("Next", current_page + 1) >> ELSE << >>)

\* nav_instructions: empty, or the instruction quoting the footer nav_html.
nav_instructions(current_page, total) ==
    IF total > 1
    THEN [footer |-> TRUE, links |-> nav_links(current_page, total),
          page |-> current_page, of |-> total]
    ELSE [footer |-> FALSE, links |-> << >>, page |-> 0, of |-> 0]

generate_html_from_markdown(markdown_content, current_page, total, llm) ==
    [nav |-> nav_instructions(current_page, total),
     model_calls |-> 1,
     failed |-> (llm = "error"),
     html |-> IF llm = "error" THEN Str("", 0) ELSE ModelOutput("stage 2 output")]

----------------------------------------------------------------------------
(* pdf_parser.open_pdf_from_path *)

None == [none |-> TRUE, is_closed |-> FALSE, is_encrypted |-> FALSE, page_count |-> 0]

\* is_encrypted tells whether the document is still encrypted: authenticate()
\* clears it when the password fits.
Handle(closed, encrypted, n) ==
    [none |-> FALSE, is_closed |-> closed, is_encrypted |-> encrypted, page_count |-> n]

\* The uploaded bytes as the PDF library sees them.
Files ==
    { [parseable |-> FALSE, is_encrypted |-> FALSE, password_ok |-> FALSE,
       page_count |-> 0] }
    \cup { [parseable |-> TRUE, is_encrypted |-> FALSE, password_ok |-> FALSE,
            page_count |-> n] : n \in 0..MaxPages }
    \cup { [parseable |-> TRUE, is_encrypted |-> TRUE, password_ok |-> a,
            page_count |-> n] : a \in BOOLEAN, n \in 0..MaxPages }

\* A failed authenticate() leaving the document open.
open_pdf_left_open(file) ==
    IF ~file.parseable
    THEN [raises |-> LibraryError("FileDataError: cannot open broken document"),
          doc |-> None, auth_failed |-> FALSE]
    ELSE IF file.is_encrypted /\ ~file.password_ok
    THEN [raises |-> NoExc, doc |-> Handle(FALSE, TRUE, file.page_count),
          auth_failed |-> TRUE]
    ELSE [raises |-> NoExc, doc |-> Handle(FALSE, FALSE, file.page_count),
          auth_failed |-> FALSE]

\* fitz.open raises on bytes that are no PDF and the except clause raises the
\* same exception again; a failed authenticate() closes the document and the
\* closed handle is returned.
open_pdf_from_path(file) ==
    IF ~file.parseable
    THEN [raises |-> LibraryError("FileDataError: cannot open broken document"),
          doc |-> None, auth_failed |-> FALSE]
    ELSE IF file.is_encrypted /\ ~file.password_ok
    THEN [raises |-> NoExc, doc |-> Handle(TRUE, TRUE, file.page_count),
          auth_failed |-> TRUE]
    ELSE [raises |-> NoExc, doc |-> Handle(FALSE, FALSE, file.page_count),
          auth_failed |-> FALSE]

----------------------------------------------------------------------------
(* pdf_parser.extract_text_with_positions *)

Span(text) ==
    [text |-> text, bbox |-> << 0, 0, 0, 0 >>, font |-> "Helvetica",
     size |-> 9, color |-> 0]

\* A page of the two spans Span(ShortText), Span(FillText) and nothing else
\* is rendered in 18 + 1 + (59 + 5) + 1 + (59 + FillText.len) characters, which
\* is MAX_CHARS exactly; one image or table more takes it over.
ShortText == Str("short", 5)
FillText == Str("fill", MAX_CHARS - 143)

\* The span lists a page may have.
PageTexts == { << >>, << Span(ShortText), Span(FillText) >> }

extract_text_with_positions(texts, n) ==
    [i \in 1..n |-> [page_number |-> i - 1, blocks |-> texts[i]]]

----------------------------------------------------------------------------
(* pdf_parser.extract_images and its fallback *)

\* Cross-reference ids of the embedded images, and extract_image(xref)["ext"].
Xrefs == {7, 12}
ExtOf(xref) == IF xref = 7 THEN "png" ELSE "jpeg"

\* Sequences over S of length at most n.
SeqsUpTo(S, n) == UNION { [1..k -> S] : k \in 0..n }

RECURSIVE TotalLen(_, _)
TotalLen(lists, n) ==
    IF n = 0 THEN 0 ELSE Len(lists[n]) + TotalLen(lists, n - 1)

\* What doc.get_page_images(page_num, full=True) lists for each page: one item
\* per reference, so an image drawn through two form objects is listed twice.
PageImageLists(n) ==
    { l \in [1..n -> SeqsUpTo(Xrefs, MaxImages)] : TotalLen(l, n) <= MaxImages }

\* Lines 212-219: the images of pages 1..n (page_num 0..n-1), in page order.
RECURSIVE PrimaryImages(_, _)
PrimaryImages(page_images, n) ==
    IF n = 0 THEN << >>
    ELSE PrimaryImages(page_images, n - 1)
         \o [i \in 1..Len(page_images[n]) |->
                [name |-> PrimaryName(n - 1, page_images[n][i],
                                      ExtOf(page_images[n][i])),
                 bytes |-> page_images[n][i],
                 page |-> n - 1]]

\* How the pdfimages run ends: it wrote the files listed (in os.listdir
\* order), the tool is not on PATH, it exits non-zero, or it runs longer than
\* the timeout.
FileOrders(k) ==
    { f \in [1..k -> 0..(k - 1)] : \A i, j \in 1..k : f[i] = f[j] => i = j }

FallbackOutcomes ==
    { [kind |-> "ok", files |-> f] : f \in UNION { FileOrders(k) : k \in 0..MaxImages } }
    \cup { [kind |-> k, files |-> << >>] :
             k \in {"FileNotFoundError", "CalledProcessError", "TimeoutExpired"} }

_extract_images_with_fallback(outcome) ==
    IF outcome.kind = "ok"
    THEN [raises |-> NoExc,
          images |-> [i \in 1..Len(outcome.files) |->
                        [name |-> FallbackFileName(outcome.files[i],
                                     IF outcome.files[i] % 2 = 0 THEN "png" ELSE "jpg"),
                         bytes |-> 100 + outcome.files[i],
                         page |-> 0]],
          fallback |-> TRUE]
    ELSE IF outcome.kind \in {"CalledProcessError", "FileNotFoundError"}
    THEN [raises |-> NoExc, images |-> << >>, fallback |-> TRUE]
    ELSE [raises |-> LibraryError("TimeoutExpired: pdfimages timed out"),
          images |-> << >>, fallback |-> TRUE]

\* The fallback tried whenever the primary path found nothing, whatever the
\* page count.
extract_images_any_page_count(page_images, n, outcome) ==
    LET all_images == PrimaryImages(page_images, n)
    IN  IF all_images = << >>
        THEN _extract_images_with_fallback(outcome)
        ELSE [raises |-> NoExc, images |-> all_images, fallback |-> FALSE]

extract_images(page_images, n, outcome) ==
    LET all_images == PrimaryImages(page_images, n)
    IN  IF all_images = << >> /\ n > 0
        THEN _extract_images_with_fallback(outcome)
        ELSE [raises |-> NoExc, images |-> all_images, fallback |-> FALSE]

----------------------------------------------------------------------------
(* pdf_parser.extract_tables_with_pdfplumber *)

CellTags == << "t0", "t1", "t2", "t3", "t4", "t5" >>

\* A table of page p: two rows, one cell empty.
TableOf(p) ==
    << << Str(CellTags[p + 1], 2), Str("x", 1) >>,
       << NoneCell, Str(CellTags[p + 1], 2) >> >>

\* What page.extract_tables() returns for page p.
PageTables(p) == { << >>, << TableOf(p) >> }

TablesByPage(n) ==
    { t \in [1..n -> UNION { PageTables(p) : p \in 0..(n - 1) }] :
        \A i \in 1..n : t[i] \in PageTables(i - 1) }

\* Lines 99-111: only pages with tables get an entry.
RECURSIVE extract_tables_with_pdfplumber(_, _)
extract_tables_with_pdfplumber(tables, n) ==
    IF n = 0 THEN << >>
    ELSE extract_tables_with_pdfplumber(tables, n - 1)
         \o (IF tables[n] # << >>
             THEN << [page_number |-> n - 1, tables |-> tables[n]] >>
             ELSE << >>)

----------------------------------------------------------------------------
(* main.convert_pdf_to_html: the request, step by step *)

TempName == "tmp.pdf"

Ev(name, page) == [ev |-> name, page |-> page]

NoMd ==
    [page |-> -1, formatted_len |-> 0, model_calls |-> 0, failed |-> FALSE,
     markdown |-> [kind |-> "none", parts |-> << >>]]

NoHtml ==
    [page |-> -1, nav |-> [footer |-> FALSE, links |-> << >>, page |-> 0, of |-> 0],
     model_calls |-> 0, failed |-> FALSE, html |-> Str("", 0)]

NoBundle == [text_blocks |-> << >>, images |-> << >>, tables |-> << >>]

\* Sizes of the upload body, on both sides of the limit.
UploadSizes == {MAX_FILE_SIZE, MAX_FILE_SIZE + 1}

Init ==
    /\ pc = "check_type"
    /\ upload \in [content_type : {PdfContentType, "text/plain"}, size : UploadSizes]
    /\ body_read = FALSE
    /\ temp_file_path = ""
    /\ disk = {}
    /\ doc = None
    /\ total_pages = 0
    /\ all_text_data = << >>
    /\ all_image_data = << >>
    /\ all_table_data = << >>
    /\ detected_tables = << >>
    /\ listed_images = << >>
    /\ page_num = 0
    /\ bundle = NoBundle
    /\ last_md = NoMd
    /\ last_html = NoHtml
    /\ zip_entries = << >>
    /\ exc = NoExc
    /\ raised = << >>
    /\ response = NoResponse
    /\ log = << >>

\* raise e, control passing to the step at
Raise(e, at) ==
    /\ exc' = e
    /\ raised' = Append(raised, e)
    /\ pc' = at

\* Lines 89-90.
CheckContentType ==
    /\ pc = "check_type"
    /\ IF upload.content_type # PdfContentType
       THEN Raise(HTTPException(400, "Invalid file type."), "respond")
       ELSE pc' = "read" /\ UNCHANGED << exc, raised >>
    /\ UNCHANGED << upload, body_read, temp_file_path, disk, doc, total_pages,
                    all_text_data, all_image_data, all_table_data, detected_tables, listed_images, page_num,
                    bundle, last_md, last_html, zip_entries, response, log >>

\* The body read and passed on without the size check.
ReadBodyUnchecked ==
    /\ pc = "read"
    /\ body_read' = TRUE
    /\ log' = Append(log, Ev("file.read", -1))
    /\ pc' = "tempfile"
    /\ UNCHANGED << upload, temp_file_path, disk, doc, total_pages,
                    all_text_data, all_image_data, all_table_data, detected_tables, listed_images,
                    page_num, bundle, last_md, last_html, zip_entries, response,
                    exc, raised >>

\* Lines 92-94.
ReadBody ==
    /\ pc = "read"
    /\ body_read' = TRUE
    /\ log' = Append(log, Ev("file.read", -1))
    /\ IF upload.size > MAX_FILE_SIZE
       THEN Raise(HTTPException(413, "File size exceeds limit."), "respond")
       ELSE pc' = "tempfile" /\ UNCHANGED << exc, raised >>
    /\ UNCHANGED << upload, temp_file_path, disk, doc, total_pages,
                    all_text_data, all_image_data, all_table_data, detected_tables, listed_images, page_num,
                    bundle, last_md, last_html, zip_entries, response >>

\* Lines 99-101: NamedTemporaryFile(delete=False) creates the file, write()
\* fills it, and the path is remembered only after the write.
WriteTemp ==
    /\ pc = "tempfile"
    /\ log' = Append(log, Ev("tempfile", -1))
    /\ \E outcome \in {"ok", "create fails", "write fails"} :
        CASE outcome = "ok" ->
                /\ disk' = disk \cup {TempName}
                /\ temp_file_path' = TempName
                /\ pc' = "open"
                /\ UNCHANGED << exc, raised >>
          [] outcome = "create fails" ->
                /\ Raise(LibraryError("OSError: cannot create temporary file"), "except")
                /\ UNCHANGED << disk, temp_file_path >>
          [] outcome = "write fails" ->
                /\ disk' = disk \cup {TempName}
                /\ Raise(LibraryError("OSError: no space left on device"), "except")
                /\ UNCHANGED temp_file_path
    /\ UNCHANGED << upload, body_read, doc, total_pages,
                    all_text_data, all_image_data, all_table_data, detected_tables, listed_images, page_num,
                    bundle, last_md, last_html, zip_entries, response >>

\* Line 103.
OpenPdf ==
    /\ pc = "open"
    /\ \E file \in Files :
        LET r == open_pdf_from_path(file)
        IN  /\ log' = log \o << Ev("open", -1) >>
                          \o (IF r.auth_failed
                              THEN << Ev("authenticate failed", -1) >> ELSE << >>)
            /\ IF r.raises # NoExc
               THEN Raise(r.raises, "except") /\ UNCHANGED doc
               ELSE doc' = r.doc /\ pc' = "page_count" /\ UNCHANGED << exc, raised >>
    /\ UNCHANGED << upload, body_read, temp_file_path, disk, total_pages,
                    all_text_data, all_image_data, all_table_data, detected_tables, listed_images, page_num,
                    bundle, last_md, last_html, zip_entries, response >>

\* Line 104: page_count of a closed document raises ValueError.
PageCount ==
    /\ pc = "page_count"
    /\ IF doc.is_closed
       THEN Raise(LibraryError("ValueError: document closed"), "except")
            /\ UNCHANGED total_pages
       ELSE total_pages' = doc.page_count /\ pc' = "extract_text"
            /\ UNCHANGED << exc, raised >>
    /\ UNCHANGED << upload, body_read, temp_file_path, disk, doc,
                    all_text_data, all_image_data, all_table_data, detected_tables, listed_images, page_num,
                    bundle, last_md, last_html, zip_entries, response, log >>

\* Line 106.
ExtractText ==
    /\ pc = "extract_text"
    /\ log' = Append(log, Ev("extract_text", -1))
    /\ \/ /\ \E texts \in [1..doc.page_count -> PageTexts] :
               all_text_data' = extract_text_with_positions(texts, doc.page_count)
          /\ pc' = "extract_images"
          /\ UNCHANGED << exc, raised >>
       \/ /\ Raise(LibraryError("RuntimeError: cannot load page"), "except")
          /\ UNCHANGED all_text_data
    /\ UNCHANGED << upload, body_read, temp_file_path, disk, doc, total_pages,
                    all_image_data, all_table_data, detected_tables, listed_images, page_num,
                    bundle, last_md, last_html, zip_entries, response >>

\* The page loop entered right after the images, the tables left unread.
ExtractImagesThenLoop ==
    /\ pc = "extract_images"
    /\ \/ \E page_images \in PageImageLists(doc.page_count), outcome \in FallbackOutcomes :
            LET r == extract_images(page_images, doc.page_count, outcome)
            IN  /\ listed_images' = page_images
                /\ log' = log \o << Ev("extract_images", -1) >>
                              \o (IF r.fallback THEN << Ev("pdfimages", -1) >> ELSE << >>)
                              \o (IF r.fallback /\ outcome.kind # "ok"
                                  THEN << Ev(outcome.kind, -1) >> ELSE << >>)
                /\ IF r.raises # NoExc
                   THEN Raise(r.raises, "except") /\ UNCHANGED all_image_data
                   ELSE /\ all_image_data' = r.images
                        /\ pc' = "loop"
                        /\ UNCHANGED << exc, raised >>
       \/ /\ log' = Append(log, Ev("extract_images", -1))
          /\ Raise(LibraryError("RuntimeError: cannot extract image"), "except")
          /\ UNCHANGED << all_image_data, listed_images >>
    /\ UNCHANGED << upload, body_read, temp_file_path, disk, doc, total_pages,
                    all_text_data, all_table_data, detected_tables, page_num,
                    bundle, last_md, last_html, zip_entries, response >>

\* Line 107.
ExtractImages ==
    /\ pc = "extract_images"
    /\ \/ \E page_images \in PageImageLists(doc.page_count), outcome \in FallbackOutcomes :
            LET r == extract_images(page_images, doc.page_count, outcome)
            IN  /\ listed_images' = page_images
                /\ log' = log \o << Ev("extract_images", -1) >>
                              \o (IF r.fallback THEN << Ev("pdfimages", -1) >> ELSE << >>)
                              \o (IF r.fallback /\ outcome.kind # "ok"
                                  THEN << Ev(outcome.kind, -1) >> ELSE << >>)
                /\ IF r.raises # NoExc
                   THEN Raise(r.raises, "except") /\ UNCHANGED all_image_data
                   ELSE /\ all_image_data' = r.images
                        /\ pc' = "extract_tables"
                        /\ UNCHANGED << exc, raised >>
       \/ /\ log' = Append(log, Ev("extract_images", -1))
          /\ Raise(LibraryError("RuntimeError: cannot extract image"), "except")
          /\ UNCHANGED << all_image_data, listed_images >>
    /\ UNCHANGED << upload, body_read, temp_file_path, disk, doc, total_pages,
                    all_text_data, all_table_data, detected_tables, page_num,
                    bundle, last_md, last_html, zip_entries, response >>

\* Line 108.
ExtractTables ==
    /\ pc = "extract_tables"
    /\ log' = Append(log, Ev("extract_tables", -1))
    /\ \/ /\ \E tables \in TablesByPage(doc.page_count) :
               /\ detected_tables' = tables
               /\ all_table_data' = extract_tables_with_pdfplumber(tables, doc.page_count)
          /\ page_num' = 0
          /\ pc' = "loop"
          /\ UNCHANGED << exc, raised >>
       \/ /\ Raise(LibraryError("PDFSyntaxError: cannot read tables"), "except")
          /\ UNCHANGED << all_table_data, detected_tables, page_num >>
    /\ UNCHANGED << upload, body_read, temp_file_path, disk, doc, total_pages,
                    all_text_data, all_image_data, listed_images,
                    bundle, last_md, last_html, zip_entries, response >>

\* Lines 115-117: the page's text, images and tables.
page_text_blocks(p) == all_text_data[p + 1].blocks

page_image_data(p) == SelectSeq(all_image_data, LAMBDA img : img.page = p)

\* next((t['tables'] for t in all_table_data if t['page_number'] == p), [])
RECURSIVE FirstTables(_, _)
FirstTables(entries, p) ==
    IF entries = << >> THEN << >>
    ELSE IF Head(entries).page_number = p THEN Head(entries).tables
    ELSE FirstTables(Tail(entries), p)

\* The lookup made with the 1-based page number.
page_tables_one_based(p) == FirstTables(all_table_data, p + 1)

page_tables(p) == FirstTables(all_table_data, p)

\* Lines 113-117.
Join ==
    /\ pc = "loop"
    /\ page_num < total_pages
    /\ bundle' = [text_blocks |-> page_text_blocks(page_num),
                  images |-> page_image_data(page_num),
                  tables |-> page_tables(page_num)]
    /\ log' = Append(log, Ev("join", page_num))
    /\ pc' = "markdown"
    /\ UNCHANGED << upload, body_read, temp_file_path, disk, doc, total_pages,
                    all_text_data, all_image_data, all_table_data, detected_tables, listed_images, page_num,
                    last_md, last_html, zip_entries, exc, raised, response >>

\* Lines 120-124.
Markdown ==
    /\ pc = "markdown"
    /\ \E llm \in {"ok", "error"} :
        LET r == generate_markdown_from_data(bundle.text_blocks, bundle.images,
                                             bundle.tables, llm)
        IN  /\ last_md' = [page |-> page_num, formatted_len |-> r.formatted_len,
                           model_calls |-> r.model_calls, failed |-> r.failed,
                           markdown |-> r.markdown]
            /\ log' = log \o [i \in 1..r.model_calls |-> Ev("markdown model call", page_num)]
            /\ IF r.failed
               THEN Raise(LibraryError("APIError: model call failed"), "except")
               ELSE pc' = "html" /\ UNCHANGED << exc, raised >>
    /\ UNCHANGED << upload, body_read, temp_file_path, disk, doc, total_pages,
                    all_text_data, all_image_data, all_table_data, detected_tables, listed_images, page_num,
                    bundle, last_html, zip_entries, response >>

\* Lines 127-131.
Html ==
    /\ pc = "html"
    /\ \E llm \in {"ok", "error"} :
        LET r == generate_html_from_markdown(last_md.markdown, page_num + 1,
                                             total_pages, llm)
        IN  /\ last_html' = [page |-> page_num, nav |-> r.nav,
                             model_calls |-> r.model_calls, failed |-> r.failed,
                             html |-> r.html]
            /\ log' = log \o [i \in 1..r.model_calls |-> Ev("html model call", page_num)]
            /\ IF r.failed
               THEN Raise(LibraryError("APIError: model call failed"), "except")
               ELSE pc' = "write_page" /\ UNCHANGED << exc, raised >>
    /\ UNCHANGED << upload, body_read, temp_file_path, disk, doc, total_pages,
                    all_text_data, all_image_data, all_table_data, detected_tables, listed_images, page_num,
                    bundle, last_md, zip_entries, response >>

\* The page entry named by the 0-based loop index.
WritePageZeroBased ==
    /\ pc = "write_page"
    /\ zip_entries' = Append(zip_entries, Entry("", PageFileName(page_num)))
    /\ page_num' = page_num + 1
    /\ pc' = "loop"
    /\ UNCHANGED << upload, body_read, temp_file_path, disk, doc, total_pages,
                    all_text_data, all_image_data, all_table_data, detected_tables, listed_images,
                    bundle, last_md, last_html, exc, raised, response, log >>

\* Line 133, and the loop's step to the next page.
WritePage ==
    /\ pc = "write_page"
    /\ zip_entries' = Append(zip_entries, Entry("", PageFileName(page_num + 1)))
    /\ page_num' = page_num + 1
    /\ pc' = "loop"
    /\ UNCHANGED << upload, body_read, temp_file_path, disk, doc, total_pages,
                    all_text_data, all_image_data, all_table_data, detected_tables, listed_images,
                    bundle, last_md, last_html, exc, raised, response, log >>

\* The images written before the stylesheet.
TrailingEntriesImagesFirst ==
    [i \in 1..Len(all_image_data) |-> Entry("images/", all_image_data[i].name)]
    \o << Entry("", StyleSheetName) >>

\* Lines 136-139: the entries written after the page loop.
TrailingEntries ==
    << Entry("", StyleSheetName) >>
    \o [i \in 1..Len(all_image_data) |-> Entry("images/", all_image_data[i].name)]

\* Lines 136-143: the stylesheet, the images, and the return.
WriteAssetsAndReturn ==
    /\ pc = "loop"
    /\ page_num >= total_pages
    /\ zip_entries' = zip_entries \o TrailingEntries
    /\ pc' = "finally"
    /\ UNCHANGED << upload, body_read, temp_file_path, disk, doc, total_pages,
                    all_text_data, all_image_data, all_table_data, detected_tables, listed_images, page_num,
                    bundle, last_md, last_html, exc, raised, response, log >>

\* Lines 146-153: a domain error is raised again as it is, anything else is
\* replaced by HTTPException(500) with the fixed detail.
\* The exception's own text given as the detail.
unexpected_error_with_detail(e) == HTTPException(500, e.text)

\* Lines 148-153.
unexpected_error(e) == HTTPException(500, InternalErrorMessage)

Except ==
    /\ pc = "except"
    /\ IF IsPDFProcessingError(exc)
       THEN UNCHANGED << exc, raised >> /\ pc' = "finally"
       ELSE Raise(unexpected_error(exc), "finally")
    /\ UNCHANGED << upload, body_read, temp_file_path, disk, doc, total_pages,
                    all_text_data, all_image_data, all_table_data, detected_tables, listed_images, page_num,
                    bundle, last_md, last_html, zip_entries, response, log >>

\* "if doc:" asks the handle for its length: page_count, which a closed
\* document refuses with ValueError.
DocTruthy(d) == ~d.none /\ d.page_count > 0

\* Lines 154-158.
Finally ==
    /\ pc = "finally"
    /\ IF ~doc.none /\ doc.is_closed
       THEN /\ Raise(LibraryError("ValueError: document closed"), "respond")
            /\ UNCHANGED << doc, disk >>
       ELSE /\ doc' = IF DocTruthy(doc) THEN [doc EXCEPT !.is_closed = TRUE] ELSE doc
            /\ disk' = IF temp_file_path # "" /\ temp_file_path \in disk
                       THEN disk \ {temp_file_path} ELSE disk
            /\ pc' = "respond"
            /\ UNCHANGED << exc, raised >>
    /\ UNCHANGED << upload, body_read, temp_file_path, total_pages,
                    all_text_data, all_image_data, all_table_data, detected_tables, listed_images, page_num,
                    bundle, last_md, last_html, zip_entries, response, log >>

\* Lines 43-57.
pdf_processing_exception_handler(e) ==
    [status |-> 400, key |-> "error", type |-> e.type, text |-> e.text,
     entries |-> << >>]

\* Lines 62-72.
catch_exceptions_middleware(e) ==
    [status |-> 500, key |-> "message", type |-> "", text |-> InternalErrorMessage,
     entries |-> << >>]

\* An error response that carries the pages zipped so far.
http_exception_response_with_archive(e) ==
    [status |-> e.status, key |-> "detail", type |-> "", text |-> e.text,
     entries |-> zip_entries]

\* An HTTPException leaves as its status code with {"detail": detail}.
http_exception_response(e) ==
    [status |-> e.status, key |-> "detail", type |-> "", text |-> e.text,
     entries |-> << >>]

\* Line 143.
StreamingResponse(entries) ==
    [status |-> 200, key |-> "zip", type |-> "", text |-> "", entries |-> entries]

\* What leaves the application for the handler's return value or exception.
Respond ==
    /\ pc = "respond"
    /\ response' =
         IF exc = NoExc THEN StreamingResponse(zip_entries)
         ELSE IF exc.type = "HTTPException" THEN http_exception_response(exc)
         ELSE IF IsPDFProcessingError(exc) THEN pdf_processing_exception_handler(exc)
         ELSE catch_exceptions_middleware(exc)
    /\ pc' = "done"
    /\ UNCHANGED << upload, body_read, temp_file_path, disk, doc, total_pages,
                    all_text_data, all_image_data, all_table_data, detected_tables, listed_images, page_num,
                    bundle, last_md, last_html, zip_entries, exc, raised, log >>

Next ==
    \/ CheckContentType
    \/ ReadBody
    \/ WriteTemp
    \/ OpenPdf
    \/ PageCount
    \/ ExtractText
    \/ ExtractImages
    \/ ExtractTables
    \/ Join
    \/ Markdown
    \/ Html
    \/ WritePage
    \/ WriteAssetsAndReturn
    \/ Except
    \/ Finally
    \/ Respond

Spec == Init /\ [][Next]_vars

----------------------------------------------------------------------------
(* Properties *)

Succeeded == pc = "done" /\ response.status = 200

EntryNames(entries) == { entries[i] : i \in DOMAIN entries }

ImageEntries(entries) == SelectSeq(entries, LAMBDA e : e.dir = "images/")

\* C1: a successful conversion of a document of N pages with extracted image
\* list I returns an archive whose entry names are exactly page-1.html ..
\* page-N.html, style.css and images/<name> for every name in I.
C1_ArchiveEntries ==
    Succeeded =>
        EntryNames(response.entries) =
            { Entry("", PageFileName(k)) : k \in 1..doc.page_count }
            \cup { Entry("", StyleSheetName) }
            \cup { Entry("images/", all_image_data[i].name) : i \in DOMAIN all_image_data }

C1_Witness ==
    /\ Succeeded
    /\ doc.page_count = 2
    /\ Len(all_image_data) = 2
    /\ all_image_data[1].name # all_image_data[2].name

\* C2: in the returned archive no two entries under images/ have the same
\* path, whatever list extract_images returned.
C2_ImageEntriesUnique ==
    Succeeded =>
        \A i, j \in DOMAIN ImageEntries(response.entries) :
            ImageEntries(response.entries)[i] = ImageEntries(response.entries)[j]
                => i = j

MarkdownCalls(p) ==
    Cardinality({ i \in DOMAIN log : log[i] = Ev("markdown model call", p) })

\* Length of the description rendered for page p.
RenderedLen(p) ==
    format_data_for_llm(page_text_blocks(p), page_image_data(p), page_tables(p)).len

\* C3: generate_markdown_from_data issues exactly one model call for a page
\* whose rendered description has at most 15000 characters, and none for a
\* longer one, whose Markdown then starts with the fallback heading.
C3_SizeGate ==
    last_md.page >= 0 =>
        IF RenderedLen(last_md.page) <= 15000
        THEN MarkdownCalls(last_md.page) = 1 /\ last_md.model_calls = 1
        ELSE /\ MarkdownCalls(last_md.page) = 0
             /\ last_md.model_calls = 0
             /\ last_md.markdown.kind = "fallback"
             /\ last_md.markdown.parts[1].tag = "# Page Content Too Large for Detailed Analysis"

\* Page 0 rendered in exactly 15000 characters and sent to the model, page 1
\* longer and not sent.
C3_Witness ==
    /\ last_md.page = 1
    /\ RenderedLen(0) = 15000
    /\ MarkdownCalls(0) = 1
    /\ last_md.formatted_len > 15000
    /\ MarkdownCalls(1) = 0

HasLink(nav, label, target) ==
    \E i \in DOMAIN nav.links : nav.links[i] = NavLink(label, target)

HasLabel(nav, label) == \E i \in DOMAIN nav.links : nav.links[i].label = label

\* C4: the navigation built for page k of N has no footer when N = 1; when
\* N > 1 the footer has a Previous link, to page k-1, exactly when k > 1 and a
\* Next link, to page k+1, exactly when k < N.
C4_Navigation ==
    last_html.page >= 0 =>
        LET k == last_html.page + 1
            N == doc.page_count
            nav == last_html.nav
        IN  /\ N = 1 => ~nav.footer /\ nav.links = << >>
            /\ N > 1 =>
                /\ nav.footer
                /\ HasLabel(nav, "Previous") <=> k > 1
                /\ HasLabel(nav, "Next") <=> k < N
                /\ k > 1 => HasLink(nav, "Previous", k - 1)
                /\ k < N => HasLink(nav, "Next", k + 1)
                /\ Len(nav.links) = (IF k > 1 THEN 1 ELSE 0) + (IF k < N THEN 1 ELSE 0)

\* The last page of a two-page document: a footer with Previous alone.
C4_Witness ==
    /\ last_html.page = 1
    /\ doc.page_count = 2
    /\ last_html.nav.footer
    /\ last_html.nav.links = << NavLink("Previous", 1) >>

\* C5: the tables passed to Markdown synthesis for page p are exactly the
\* tables detected on page p, and a page without an entry in the sparse table
\* result gets the empty list and no error.
C5_TableJoin ==
    pc \in {"markdown", "html", "write_page"} =>
        /\ bundle.tables = detected_tables[page_num + 1]
        /\ \A i \in DOMAIN bundle.tables :
              bundle.tables[i][1][1].tag = CellTags[page_num + 1]
        /\ (\A i \in DOMAIN all_table_data : all_table_data[i].page_number # page_num)
              => bundle.tables = << >> /\ exc = NoExc

\* Two pages, a table on page 1 alone: page 0 went through with no tables
\* and page 1 is joined with its own.
C5_Witness ==
    /\ pc = "markdown"
    /\ page_num = 1
    /\ Len(all_table_data) = 1
    /\ all_table_data[1].page_number = 1
    /\ bundle.tables = << TableOf(1) >>
    /\ last_md.page = 0

LogEvents == { log[i].ev : i \in DOMAIN log }

ExtractorEvents == {"extract_text", "extract_images", "pdfimages", "extract_tables"}

ModelCallEvents == {"markdown model call", "html model call"}

\* C6: an upload that is not application/pdf is refused with a client error
\* before its body is read, and an upload of more than 50 MiB is refused with
\* a client error before a temp file is written or anything is parsed; neither
\* request ever reaches an extractor or the model.
C6_RejectedEarly ==
    /\ upload.content_type # "application/pdf" =>
          /\ ~body_read
          /\ log = << >>
          /\ disk = {}
          /\ pc \in {"check_type", "respond", "done"}
          /\ pc = "done" => response.status = 400
    /\ (upload.content_type = "application/pdf" /\ upload.size > 50 * 1024 * 1024) =>
          /\ LogEvents \subseteq {"file.read"}
          /\ LogEvents \cap (ExtractorEvents \cup ModelCallEvents) = {}
          /\ disk = {}
          /\ temp_file_path = ""
          /\ doc = None
          /\ pc \in {"check_type", "read", "respond", "done"}
          /\ pc = "done" => response.status = 413

\* A PDF upload one byte over the limit, answered 413 after the read alone.
C6_Witness ==
    /\ pc = "done"
    /\ upload.content_type = "application/pdf"
    /\ upload.size = 50 * 1024 * 1024 + 1
    /\ body_read
    /\ response.status = 413

OpenFailed ==
    raised # << >> /\ raised[1] = LibraryError("FileDataError: cannot open broken document")

StructuredError(r) == r.status = 400 /\ r.key = "error" /\ r.type # "" /\ r.text # ""

\* C7: when the uploaded bytes cannot be opened as a PDF the request ends with
\* status 400 and the structured {error: {type, message}} body.
C7_ParseFailureIsClientError ==
    (pc = "done" /\ OpenFailed) => StructuredError(response)

\* C8: opening an encrypted document whose authentication fails raises the
\* password-protected domain error, no handle is returned, and the request
\* ends with status 400 and the structured body.
C8_FailsClosed ==
    (pc = "done" /\ "authenticate failed" \in LogEvents) =>
        /\ doc.none
        /\ raised # << >>
        /\ raised[1] = PasswordProtectedPDFError
        /\ StructuredError(response)

\* The first exception of the request came out of the conversion pipeline and
\* is no PDFProcessingError.
UnexpectedFailure == raised # << >> /\ raised[1].type = "Exception"

\* C9: a failure inside the pipeline that is no PDFProcessingError ends the
\* request with status 500 and the fixed message; the response carries no
\* exception text and no archive content.
C9_OpaqueServerError ==
    (pc = "done" /\ UnexpectedFailure) =>
        /\ response.status = 500
        /\ response.text = "An internal server error occurred."
        /\ response.key \in {"detail", "message"}
        /\ \A i \in DOMAIN raised :
              raised[i].type = "Exception" => response.text # raised[i].text
        /\ response.entries = << >>

\* A model call failed on the second page, after the first was written.
C9_Witness ==
    /\ pc = "done"
    /\ raised # << >>
    /\ raised[1] = LibraryError("APIError: model call failed")
    /\ page_num = 1
    /\ Len(zip_entries) = 1
    /\ response.status = 500

\* C10: when the handler has finished, on whatever path, the temp file it
\* created is gone and the document it opened is closed.
C10_ResourcesReleased ==
    pc = "done" => disk = {} /\ (~doc.none => doc.is_closed)

FallbackFailureEvents == {"FileNotFoundError", "CalledProcessError", "TimeoutExpired"}

FallbackFailed == LogEvents \cap FallbackFailureEvents # {}

\* C11: when the pdfimages run fails (tool missing, non-zero exit, or longer
\* than the timeout) the fallback returns the empty list and raises nothing,
\* so the conversion goes on and its archive has no images.
C11_FallbackFailureSwallowed ==
    FallbackFailed =>
        /\ all_image_data = << >>
        /\ \A i \in DOMAIN raised :
              raised[i] # LibraryError("TimeoutExpired: pdfimages timed out")
        /\ pc = "extract_tables" \/ "extract_tables" \in LogEvents
        /\ Succeeded => ImageEntries(response.entries) = << >>

\* get_page_images has listed the images of every page.
ImagesListed ==
    "extract_images" \in LogEvents /\ Len(listed_images) = doc.page_count

FallbackInvoked == "pdfimages" \in LogEvents

\* C12: extract_images runs the command-line fallback exactly when the
\* primary path found no image in the whole document and the document has a
\* page; otherwise the primary list is returned as it is. Every fallback image
\* has page 0, so the join gives them all to page 0 and none to another page.
C12_FallbackGate ==
    ImagesListed =>
        LET primary == PrimaryImages(listed_images, doc.page_count)
        IN  /\ FallbackInvoked <=> (primary = << >> /\ doc.page_count > 0)
            /\ primary # << >> => all_image_data = primary
            /\ FallbackInvoked =>
                  /\ \A i \in DOMAIN all_image_data : all_image_data[i].page = 0
                  /\ pc \in {"markdown", "html", "write_page"} =>
                        bundle.images = IF page_num = 0 THEN all_image_data ELSE << >>

\* The fallback found two files; page 1 is joined with none of them.
C12_Witness ==
    /\ FallbackInvoked
    /\ Len(all_image_data) = 2
    /\ pc = "markdown"
    /\ page_num = 1
    /\ bundle.images = << >>

\* Position of the first event named ev in the log, 0 if there is none.
FirstIndex(ev) ==
    IF \E i \in DOMAIN log : log[i].ev = ev
    THEN CHOOSE i \in DOMAIN log : log[i].ev = ev /\ \A j \in 1..(i - 1) : log[j].ev # ev
    ELSE 0

ExtractionErrors ==
    { LibraryError("RuntimeError: cannot load page"),
      LibraryError("RuntimeError: cannot extract image"),
      LibraryError("TimeoutExpired: pdfimages timed out"),
      LibraryError("PDFSyntaxError: cannot read tables") }

ExtractionFailed == \E i \in DOMAIN raised : raised[i] \in ExtractionErrors

\* C13: text, image (with its fallback, if taken) and table extraction over
\* the whole document are complete before the first model call of any page,
\* and after a failed extraction step no model call is made.
C13_ExtractionBeforeSynthesis ==
    /\ \A i \in DOMAIN log :
          log[i].ev \in ModelCallEvents =>
              /\ \A ev \in {"extract_text", "extract_images", "extract_tables"} :
                    FirstIndex(ev) > 0 /\ FirstIndex(ev) < i
              /\ \A j \in DOMAIN log : log[j].ev \in ExtractorEvents => j < i
              /\ Len(all_text_data) = doc.page_count
              /\ Len(listed_images) = doc.page_count
              /\ Len(detected_tables) = doc.page_count
    /\ ExtractionFailed => LogEvents \cap ModelCallEvents = {}

\* A model call made after an image extraction that took the fallback.
C13_Witness ==
    /\ FallbackInvoked
    /\ all_image_data # << >>
    /\ LogEvents \cap ModelCallEvents # {}
    /\ doc.page_count = 2

PageEntriesOf(entries) == SelectSeq(entries, LAMBDA e : e.name.stem = "page-")

\* The archive as the code is to write it, in order.
ArchiveInOrder ==
    [k \in 1..total_pages |-> Entry("", PageFileName(k))]
    \o << Entry("", StyleSheetName) >>
    \o [i \in 1..Len(all_image_data) |-> Entry("images/", all_image_data[i].name)]

\* C14: page-1.html .. page-N.html are written in ascending order, each after
\* the join, the Markdown synthesis and the HTML synthesis of its page and
\* before the next page's synthesis starts; then style.css once; then the
\* images/ entries; no page entry follows style.css.
C14_WriteOrder ==
    /\ Len(zip_entries) <= Len(ArchiveInOrder)
    /\ zip_entries = SubSeq(ArchiveInOrder, 1, Len(zip_entries))
    /\ Succeeded => response.entries = ArchiveInOrder
    /\ pc \in {"markdown", "html", "write_page"} =>
          /\ page_num < total_pages
          /\ zip_entries = [k \in 1..page_num |-> Entry("", PageFileName(k))]
          /\ \E i \in DOMAIN log : log[i] = Ev("join", page_num)
    /\ pc = "markdown" => last_md.page = page_num - 1 /\ last_html.page = page_num - 1
    /\ pc = "html" => last_md.page = page_num /\ last_html.page = page_num - 1
    /\ pc = "write_page" => last_md.page = page_num /\ last_html.page = page_num
    /\ \A i, j \in DOMAIN log :
          (log[i].page >= 0 /\ log[j].page >= 0 /\ i < j) =>
              \/ log[i].page < log[j].page
              \/ /\ log[i].page = log[j].page
                 /\ << log[i].ev, log[j].ev >> \in
                       { << "join", "markdown model call" >>,
                         << "join", "html model call" >>,
                         << "markdown model call", "html model call" >> }

\* A finished archive of two pages and two images.
C14_Witness ==
    /\ Succeeded
    /\ total_pages = 2
    /\ Len(response.entries) = 5
    /\ response.entries[3] = Entry("", StyleSheetName)

AuthenticationFailed == "authenticate failed" \in LogEvents

\* C15 as stated: after a failed authentication the caller holds a handle
\* that is still open.
C15_ReturnsOpenHandle ==
    (pc = "page_count" /\ AuthenticationFailed) => ~doc.none /\ ~doc.is_closed

\* C15: when authentication of an encrypted document fails, open_pdf_from_path
\* raises nothing and returns the handle after closing it: the caller's read
\* of page_count raises, no extraction runs, and the request ends with 500.
C15_ReturnsClosedHandle ==
    AuthenticationFailed =>
        /\ ~doc.none
        /\ doc.is_closed
        /\ doc.is_encrypted
        /\ total_pages = 0
        /\ LogEvents \cap ExtractorEvents = {}
        /\ pc # "page_count" =>
              /\ raised # << >>
              /\ raised[1] = LibraryError("ValueError: document closed")
        /\ pc = "done" => response.status = 500

\* The closed handle of a two-page encrypted document, in the caller's hands.
C15_Witness ==
    /\ pc = "page_count"
    /\ AuthenticationFailed
    /\ doc.is_closed
    /\ doc.page_count = 2

SpanTexts(blocks) == [i \in DOMAIN blocks |-> blocks[i].text]

ImageNameTags == { ExtOf(x) : x \in Xrefs } \cup {"image_", "fallback"}

\* C16: the Markdown of a page whose rendered description exceeds 15000
\* characters is the warning heading, the fixed notice and rule, and then the
\* text of every span of the page, whole, once each and in the order of
\* page_text_blocks; nothing of the page's images or tables is in it.
C16_FallbackDump ==
    (last_md.page >= 0 /\ last_md.formatted_len > 15000) =>
        LET parts == last_md.markdown.parts
            texts == SpanTexts(page_text_blocks(last_md.page))
        IN  /\ Len(parts) = 3 + Len(texts)
            /\ parts[1] = Str("# Page Content Too Large for Detailed Analysis", 46)
            /\ parts[2] = Str("raw text dump notice", 125)
            /\ parts[3] = Str("rule", 5)
            /\ SubSeq(parts, 4, Len(parts)) = texts
            /\ \A i \in 4..Len(parts) :
                  /\ parts[i].len = texts[i - 3].len
                  /\ \A k \in DOMAIN CellTags : parts[i].tag # CellTags[k]
                  /\ parts[i].tag \notin ImageNameTags

\* The dump of a page that has two spans, an image and a table.
C16_Witness ==
    /\ pc = "html"
    /\ last_md.page = page_num
    /\ last_md.markdown.kind = "fallback"
    /\ Len(bundle.text_blocks) = 2
    /\ bundle.images # << >>
    /\ bundle.tables # << >>
    /\ Len(last_md.markdown.parts) = 5

\* C17: a finished request has answered either with the complete archive of
\* all N pages, or with an error (400, 413 or 500) that carries no archive
\* content, whatever was already written to the in-memory zip.
C17_AllOrNothing ==
    pc = "done" =>
        \/ /\ response.status = 200
           /\ page_num = total_pages
           /\ PageEntriesOf(response.entries) =
                 [k \in 1..doc.page_count |-> Entry("", PageFileName(k))]
           /\ response.entries = ArchiveInOrder
        \/ /\ response.status \in {400, 413, 500}
           /\ raised # << >>
           /\ response.entries = << >>

\* The HTML stage failed on the second page, the first page already zipped.
C17_Witness ==
    /\ pc = "done"
    /\ total_pages = 2
    /\ zip_entries = << Entry("", PageFileName(1)) >>
    /\ last_md.page = 1
    /\ last_html.failed
    /\ response.status = 500
    /\ response.entries = << >>

====
